---- MODULE Spec2Model ----
(***************************************************************************)
(* sparkmon: a terminal dashboard that polls the Spark REST API            *)
(* (computeState), lays the result out (render) and is driven by the       *)
(* event loop of main.  Source: src/sparkmon.go.                           *)
(*                                                                         *)
(* Strings are sequences of one-character strings, so that len(), slicing, *)
(* Sprintf, Split and HasPrefix are computed, not assumed.                 *)
(***************************************************************************)
EXTENDS Integers, Sequences, FiniteSets, TLC

VARIABLES
    pc,          \* where main is: "start", "running", "terminated" (main
                 \* returned), "fatal" (log.Fatalf exited the process),
                 \* "panicked" (a run-time panic unwound main)
    arch,        \* the architecture the binary was built for
    state,       \* main's variable state: the held snapshot
    termWidth,   \* main's variable termWidth
    termHeight,  \* main's variable termHeight
    uiOpen,      \* the draw surface: TRUE from ui.Init until ui.Close
    screen,      \* the drawables of the last ui.Render
    lastEvent,   \* history: the event the last step handled
    fetched,     \* history: calls of computeState in the last step
    lastServer,  \* history: the answers the last computeState was given
    rendered,    \* history: calls of render in the last step
    drew,        \* history: calls of ui.Render in the last step
    drawArgs,    \* history: the arguments of the last call of render
    lastAgg,     \* history: the result of the last completed computeState
    lastDims     \* history: the last completed assignment of the dimensions

vars == <<pc, arch, state, termWidth, termHeight, uiOpen, screen, lastEvent,
          fetched, lastServer, rendered, drew, drawArgs, lastAgg, lastDims>>

(***************************************************************************)
(* Bounds of the model.                                                    *)
(***************************************************************************)
MaxApps == 2
MaxWidth == 12
MaxHeight == 2
MaxTasks == 2

(***************************************************************************)
(* Strings and formatting.                                                 *)
(***************************************************************************)
Digit(d) == CASE d = 0 -> "0" [] d = 1 -> "1" [] d = 2 -> "2" [] d = 3 -> "3"
              [] d = 4 -> "4" [] d = 5 -> "5" [] d = 6 -> "6" [] d = 7 -> "7"
              [] d = 8 -> "8" [] d = 9 -> "9"

RECURSIVE Itoa(_)
\* fmt's %v of a non-negative int: its decimal digits.
Itoa(n) == IF n < 10 THEN <<Digit(n)>> ELSE Itoa(n \div 10) \o <<Digit(n % 10)>>

\* strings.HasPrefix(text, prefix)
HasPrefix(text, prefix) ==
    /\ Len(text) >= Len(prefix)
    /\ SubSeq(text, 1, Len(prefix)) = prefix

RECURSIVE SplitFrom(_, _, _)
\* strings.Split(s, "\n"), scanning s from position i with the current piece cur.
SplitFrom(s, i, cur) ==
    IF i > Len(s) THEN <<cur>>
    ELSE IF s[i] = "\n" THEN <<cur>> \o SplitFrom(s, i + 1, <<>>)
    ELSE SplitFrom(s, i + 1, Append(cur, s[i]))

SplitLines(s) == SplitFrom(s, 1, <<>>)

OrgApache == <<"o", "r", "g", ".", "a", "p", "a", "c", "h", "e">>
SparkInternal == <<"<", "s", "p", "a", "r", "k", " ", "i", "n", "t", "e", "r",
                   "n", "a", "l", ">">>
Ellipsis == <<".", ".", ".">>
RunningAgainst == <<"R", "u", "n", "n", "i", "n", "g", " ", "a", "g", "a", "i",
                    "n", "s", "t", " ", "S", "p", "a", "r", "k", " ", "o", "n",
                    " ">>

(***************************************************************************)
(* Records of the REST API and of the snapshot.                            *)
(***************************************************************************)
\* The zero value of the struct Stage: what a Go map yields for a missing key.
ZeroStage == [Index |-> 0, Name |-> <<>>, Details |-> <<>>, Status |-> <<>>,
              Tasks |-> 0, ActiveTasks |-> 0, CompletedTasks |-> 0,
              FailedTasks |-> 0, KilledTasks |-> 0]

\* The zero value of the struct State.
ZeroState == [Apps |-> <<>>, Host |-> <<>>]

Host == <<"h">>

(***************************************************************************)
(* StateAggregator.                                                        *)
(* A server maps every endpoint to [ok, body]: ok = FALSE stands for a     *)
(* failing GET, body read or JSON decode.                                  *)
(***************************************************************************)
AppsEndpoint == <<"applications">>
JobsEndpoint(app) == <<"jobs", app.Id>>
StagesEndpoint(app) == <<"stages", app.Id>>

\* A variant that swallows the failure and leaves the output slice empty.
readApiEndpoint_swallow(server, endpoint) ==
    [fatal |-> FALSE,
     out |-> IF server[endpoint].ok THEN server[endpoint].body ELSE <<>>]

\* log.Fatalf on any failure (the process exits), else the decoded body.
readApiEndpoint(server, endpoint) ==
    IF server[endpoint].ok
    THEN [fatal |-> FALSE, out |-> server[endpoint].body]
    ELSE [fatal |-> TRUE, out |-> <<>>]

RECURSIVE InsertByIndex(_, _)
\* One pass of the insertion sort: x moves left while x.Index < its left
\* neighbour's Index, so it lands after every element with Index <= x.Index.
InsertByIndex(sorted, x) ==
    IF sorted = <<>> THEN <<x>>
    ELSE IF x.Index < sorted[Len(sorted)].Index
         THEN Append(InsertByIndex(SubSeq(sorted, 1, Len(sorted) - 1), x),
                     sorted[Len(sorted)])
         ELSE Append(sorted, x)

RECURSIVE SortSlice(_)
\* sort.Slice(s, func(i, j) bool { return s[i].Index < s[j].Index }).
\* On a slice of at most 6 elements sort.Slice is a plain insertion sort in
\* every Go release (at most 12 elements from Go 1.19 on); the fetched
\* slices of this model have at most 2 elements.  On longer slices the
\* order of elements with equal Index is not guaranteed.
SortSlice(s) ==
    IF s = <<>> THEN <<>>
    ELSE InsertByIndex(SortSlice(SubSeq(s, 1, Len(s) - 1)), s[Len(s)])

getApplications(server) == readApiEndpoint(server, AppsEndpoint)

\* The slice of a fetch, sorted by Index.
Sorted(r) == [fatal |-> r.fatal, out |-> SortSlice(r.out)]

\* A variant that forgets the sort.
getJobs_nosort(server, app) == readApiEndpoint(server, JobsEndpoint(app))

getJobs(server, app) == Sorted(readApiEndpoint(server, JobsEndpoint(app)))

getStages(server, app) == Sorted(readApiEndpoint(server, StagesEndpoint(app)))

\* stagesMap[stage.Index] = stage over the sorted stages: a later stage
\* with the same Index overwrites an earlier one.
StagesMap(stages) ==
    [id \in {stages[i].Index : i \in DOMAIN stages} |->
        LET last == CHOOSE i \in DOMAIN stages :
                        /\ stages[i].Index = id
                        /\ \A j \in DOMAIN stages :
                              stages[j].Index = id => j <= i
        IN  stages[last]]

\* A variant that falls back to some stored stage for a missing key.
MapLookup_nearest(stagesMap, id) ==
    IF id \in DOMAIN stagesMap THEN stagesMap[id]
    ELSE IF DOMAIN stagesMap # {}
         THEN stagesMap[CHOOSE k \in DOMAIN stagesMap :
                           \A m \in DOMAIN stagesMap : k <= m]
         ELSE ZeroStage

\* stagesMap[jobStage]: the zero Stage for a missing key.
MapLookup(stagesMap, id) ==
    IF id \in DOMAIN stagesMap THEN stagesMap[id] ELSE ZeroStage

EnrichJob(job, stagesMap) ==
    [Job |-> job,
     Stages |-> [k \in DOMAIN job.Stages |->
                    MapLookup(stagesMap, job.Stages[k])]]

\* jobsEnriched and the EnrichedApplication of one application.
JoinApp(app, jobs, stagesMap) ==
    [fatal |-> FALSE,
     app |-> [App |-> app,
              Jobs |-> [j \in DOMAIN jobs |-> EnrichJob(jobs[j], stagesMap)]]]

\* The process has exited inside the loop body.
AppFatal(app) == [fatal |-> TRUE, app |-> [App |-> app, Jobs |-> <<>>]]

\* The loop body after stages := getStages(host, app).
EnrichWithStages(app, jobs, stages) ==
    IF stages.fatal THEN AppFatal(app)
    ELSE JoinApp(app, jobs, StagesMap(stages.out))

\* The loop body after jobs := getJobs(host, app).
EnrichWithJobs(server, app, jobs) ==
    IF jobs.fatal THEN AppFatal(app)
    ELSE EnrichWithStages(app, jobs.out, getStages(server, app))

\* The body of the loop over apps.
EnrichApp(server, app) == EnrichWithJobs(server, app, getJobs(server, app))

\* appsEnriched[i] = ..., unless the process has exited.
AddApp(acc, e) ==
    [fatal |-> e.fatal,
     apps |-> IF e.fatal THEN <<>> ELSE Append(acc.apps, e.app)]

RECURSIVE EnrichApps(_, _, _, _)
\* for i, app := range apps, from position i on, acc holding appsEnriched.
EnrichApps(server, apps, acc, i) ==
    IF i > Len(apps) \/ acc.fatal THEN acc
    ELSE EnrichApps(server, apps, AddApp(acc, EnrichApp(server, apps[i])),
                    i + 1)

\* return State{Apps: appsEnriched, Host: host}
Snapshot(enriched) ==
    [fatal |-> enriched.fatal,
     state |-> [Apps |-> enriched.apps, Host |-> Host]]

\* computeState after apps := getApplications(host).
ComputeFrom(server, apps) ==
    IF apps.fatal THEN [fatal |-> TRUE, state |-> ZeroState]
    ELSE Snapshot(EnrichApps(server, apps.out,
                             [fatal |-> FALSE, apps |-> <<>>], 1))

\* computeState(host): fatal (the process has exited) or the snapshot.
computeState(server) == ComputeFrom(server, getApplications(server))

(***************************************************************************)
(* LayoutEngine.                                                           *)
(* A drawable is [kind, rect, text, percent, app, job, stage]; app, job    *)
(* and stage are the positions of the loops that appended it (0 where a    *)
(* loop is not entered), kept to state which regions belong together.      *)
(***************************************************************************)
Min(a, b) == IF a <= b THEN a ELSE b
Max(a, b) == IF a >= b THEN a ELSE b

\* SetRect(x1, y1, x2, y2) stores image.Rect(x1, y1, x2, y2), which swaps
\* the coordinates where needed so that Min <= Max.
SetRect(x1, y1, x2, y2) ==
    [MinX |-> Min(x1, x2), MinY |-> Min(y1, y2),
     MaxX |-> Max(x1, x2), MaxY |-> Max(y1, y2)]

NoPercent == [class |-> "none", val |-> 0]

Drawable(kind, rect, text, percent, a, j, s) ==
    [kind |-> kind, rect |-> rect, text |-> text, percent |-> percent,
     app |-> a, job |-> j, stage |-> s]

\* "%v %v: %v" of stage.Index, stage.Status, stage.Name
LabelText(stage) ==
    Itoa(stage.Index) \o <<" ">> \o stage.Status \o <<":", " ">> \o stage.Name

\* if len(labelText) > labelWidth { labelText = labelText[:labelWidth-3] + "..." }
\* A negative slice bound is a run-time panic.
Truncate(labelText, labelWidth) ==
    IF Len(labelText) > labelWidth
    THEN IF labelWidth - 3 < 0
         THEN [panicked |-> TRUE, text |-> <<>>]
         ELSE [panicked |-> FALSE,
               text |-> SubSeq(labelText, 1, labelWidth - 3) \o Ellipsis]
    ELSE [panicked |-> FALSE, text |-> labelText]

\* bar.Label
GaugeLabel(stage) ==
    IF stage.ActiveTasks = 0
    THEN Itoa(stage.CompletedTasks) \o <<"/">> \o Itoa(stage.Tasks)
    ELSE Itoa(stage.CompletedTasks) \o <<"/">> \o Itoa(stage.Tasks)
         \o <<" ", "(">> \o Itoa(stage.ActiveTasks)
         \o <<" ", "a", "c", "t", "i", "v", "e", ")">>

\* int(math.Ceil((float64(CompletedTasks) / float64(Tasks)) * 100)).
\* Tasks = 0 makes the quotient NaN (0/0) or +Inf (c/0, c > 0); the
\* conversion of either to int is implementation-dependent: amd64 yields
\* the smallest int64 for both, arm64 yields 0 for NaN and the largest
\* int64 for +Inf.  For 0 < Tasks < 20 the float64 evaluation equals the
\* exact ceiling computed here.
Percent(stage, a) ==
    IF stage.Tasks = 0
    THEN IF a = "amd64" THEN [class |-> "minint64", val |-> 0]
         ELSE IF stage.CompletedTasks = 0 THEN [class |-> "int", val |-> 0]
         ELSE [class |-> "maxint64", val |-> 0]
    ELSE [class |-> "int",
          val |-> (100 * stage.CompletedTasks + stage.Tasks - 1)
                      \div stage.Tasks]

RECURSIVE FirstNonApache(_, _)
\* The first piece of the split that does not start with "org.apache".
FirstNonApache(lines, i) ==
    IF i > Len(lines) THEN SparkInternal
    ELSE IF ~HasPrefix(lines[i], OrgApache) THEN lines[i]
    ELSE FirstNonApache(lines, i + 1)

DetailsText(stage) == FirstNonApache(SplitLines(stage.Details), 1)

\* A variant that starts the gauge at the label's left edge.
StageDrawables_overlap(width, a, row, stage, t, ai, ji, si) ==
    IF t.panicked THEN <<>>
    ELSE << Drawable("label", SetRect(2, row, width \div 2, row + 1),
                     t.text, NoPercent, ai, ji, si),
            Drawable("gauge", SetRect(2, row, width - 2, row + 1),
                     GaugeLabel(stage), Percent(stage, a), ai, ji, si),
            Drawable("details", SetRect(2, row + 1, width - 2, row + 2),
                     DetailsText(stage), NoPercent, ai, ji, si) >>

\* The label, bar and details of one stage, t being the label text after
\* the truncation step and row = currentHeight + currentInternalHeight on
\* entry of the loop body: label and bar share row, details are on row + 1.
StageDrawables(width, a, row, stage, t, ai, ji, si) ==
    IF t.panicked THEN <<>>
    ELSE << Drawable("label", SetRect(2, row, width \div 2, row + 1),
                     t.text, NoPercent, ai, ji, si),
            Drawable("gauge", SetRect(width \div 2, row, width - 2, row + 1),
                     GaugeLabel(stage), Percent(stage, a), ai, ji, si),
            Drawable("details", SetRect(2, row + 1, width - 2, row + 2),
                     DetailsText(stage), NoPercent, ai, ji, si) >>

\* A variant that advances the cursor by one row per stage only.
StageStep_oneRow(width, a, currentHeight, acc, stage, t, ai, ji, si) ==
    [panicked |-> t.panicked,
     drawables |-> acc.drawables
                   \o StageDrawables(width, a, currentHeight + acc.cih, stage,
                                     t, ai, ji, si),
     cih |-> acc.cih + 1]

\* The body of the loop over job.Stages; acc holds the drawables appended
\* for this job so far and currentInternalHeight, which the body
\* increments twice.
StageStep(width, a, currentHeight, acc, stage, t, ai, ji, si) ==
    [panicked |-> t.panicked,
     drawables |-> acc.drawables
                   \o StageDrawables(width, a, currentHeight + acc.cih, stage,
                                     t, ai, ji, si),
     cih |-> acc.cih + 1 + 1]

RECURSIVE StagesFrom(_, _, _, _, _, _, _, _)
\* for _, stage := range job.Stages, from position si on.
StagesFrom(width, a, currentHeight, acc, stages, ai, ji, si) ==
    IF si > Len(stages) \/ acc.panicked THEN acc
    ELSE StagesFrom(width, a, currentHeight,
                    StageStep(width, a, currentHeight, acc, stages[si],
                              Truncate(LabelText(stages[si]), width \div 2),
                              ai, ji, si),
                    stages, ai, ji, si + 1)

\* "%v (Stage %v)" of job.Job.Name, job.Job.Index
JobTitle(job) ==
    job.Job.Name \o <<" ", "(", "S", "t", "a", "g", "e", " ">>
    \o Itoa(job.Job.Index) \o <<")">>

\* The end of the body of the loop over app.Jobs: currentInternalHeight += 1
\* and jobBlock.SetRect; acc is the state on entry (acc.cih is
\* initialHeight), body the state after the loop over the stages.
CloseJob(width, currentHeight, acc, body, job, ai, ji) ==
    [panicked |-> body.panicked,
     drawables |->
        acc.drawables
        \o << Drawable("jobBlock",
                       SetRect(1, currentHeight + acc.cih, width - 1,
                               currentHeight + body.cih + 1),
                       JobTitle(job), NoPercent, ai, ji, 0) >>
        \o body.drawables,
     cih |-> body.cih + 1]

\* The body of the loop over app.Jobs.
JobStep(width, a, currentHeight, acc, job, ai, ji) ==
    CloseJob(width, currentHeight, acc,
             StagesFrom(width, a, currentHeight,
                        [panicked |-> FALSE, drawables |-> <<>>,
                         cih |-> acc.cih + 1],
                        job.Stages, ai, ji, 1),
             job, ai, ji)

RECURSIVE JobsFrom(_, _, _, _, _, _, _)
\* for _, job := range app.Jobs, from position ji on.
JobsFrom(width, a, currentHeight, acc, jobs, ai, ji) ==
    IF ji > Len(jobs) \/ acc.panicked THEN acc
    ELSE JobsFrom(width, a, currentHeight,
                  JobStep(width, a, currentHeight, acc, jobs[ji], ai, ji),
                  jobs, ai, ji + 1)

\* "%v (%v)" of app.App.Name, app.App.Id
AppTitle(app) == app.App.Name \o <<" ", "(">> \o app.App.Id \o <<")">>

\* The end of the body of the loop over state.Apps: root.SetRect and
\* currentHeight += currentInternalHeight + 1; acc is the state on entry,
\* body the state after the loop over the jobs.
CloseApp(width, acc, body, app, ai) ==
    [panicked |-> body.panicked,
     drawables |->
        acc.drawables
        \o << Drawable("root",
                       SetRect(0, acc.currentHeight, width,
                               acc.currentHeight + body.cih + 1),
                       AppTitle(app), NoPercent, ai, 0, 0) >>
        \o body.drawables,
     currentHeight |-> acc.currentHeight + body.cih + 1]

\* The body of the loop over state.Apps; currentInternalHeight starts at 1.
AppStep(width, a, acc, app, ai) ==
    CloseApp(width, acc,
             JobsFrom(width, a, acc.currentHeight,
                      [panicked |-> FALSE, drawables |-> <<>>, cih |-> 1],
                      app.Jobs, ai, 1),
             app, ai)

RECURSIVE AppsFrom(_, _, _, _, _)
\* for _, app := range state.Apps, from position ai on.
AppsFrom(width, a, acc, apps, ai) ==
    IF ai > Len(apps) \/ acc.panicked THEN acc
    ELSE AppsFrom(width, a, AppStep(width, a, acc, apps[ai], ai), apps,
                  ai + 1)

\* ui.Render(drawables...), unless a panic came first.
Rendered(body) ==
    [panicked |-> body.panicked,
     drawables |-> IF body.panicked THEN <<>> ELSE body.drawables]

\* render(width, height, state) on a build for architecture a: the
\* drawables handed to ui.Render, or a panic before ui.Render is reached.
render(width, height, st, a) ==
    Rendered(AppsFrom(width, a,
                      [panicked |-> FALSE,
                       drawables |->
                          << Drawable("header", SetRect(0, 0, width, 1),
                                      RunningAgainst \o st.Host, NoPercent,
                                      0, 0, 0) >>,
                       currentHeight |-> 2],
                      st.Apps, 1))

(***************************************************************************)
(* The inputs: what the REST API answers and what the terminal reports.    *)
(***************************************************************************)
App(k) == [Id |-> <<"a", Digit(k)>>, Name |-> <<"A">>]

Job(index, name, refs) ==
    [Index |-> index, Name |-> name, Stages |-> refs, Status |-> <<"R">>]

Stage(index, name, details, tasks, completed) ==
    [Index |-> index, Name |-> name, Details |-> details, Status |-> <<"A">>,
     Tasks |-> tasks, ActiveTasks |-> IF completed < tasks THEN 1 ELSE 0,
     CompletedTasks |-> completed, FailedTasks |-> 0, KilledTasks |-> 0]

ApacheOnly == OrgApache \o <<".", "X">>
ApacheThenUser == OrgApache \o <<"\n", "M">>

Ok(body) == [ok |-> TRUE, body |-> body]
Failure == [ok |-> FALSE, body |-> <<>>]

\* Job lists as fetched: empty, one job, out of order with a descending and
\* a dangling stage reference, and two jobs with the same index.
JobLists ==
    { <<>>,
      << Job(1, <<"j">>, <<1>>) >>,
      << Job(2, <<"k">>, <<2, 1>>), Job(1, <<"j">>, <<7>>) >>,
      << Job(1, <<"k">>, <<>>), Job(1, <<"j">>, <<1>>) >> }

\* Stage lists as fetched: empty, one stage with every task count, two
\* stages out of order, and two stages with the same index.
StageLists ==
    { <<>>, << Stage(1, <<"s">>, <<>>, 1, 1), Stage(1, <<"t">>, <<>>, 1, 0) >> }
    \cup { << Stage(1, <<"s", "t", "a", "g", "e">>, ApacheThenUser, t, c) >> :
              t \in 0..MaxTasks, c \in 0..MaxTasks }
    \cup { << Stage(2, <<"u">>, ApacheOnly, t, c), Stage(1, <<>>, <<>>, 1, 1) >> :
              t \in 0..MaxTasks, c \in 0..MaxTasks }

\* What the two per-application endpoints of the first application answer.
RichAnswers ==
    { <<Failure, Failure>> }
    \cup { <<Ok(jl), Failure>> : jl \in JobLists }
    \cup { <<Ok(jl), Ok(sl)>> : jl \in JobLists, sl \in StageLists }

\* What they answer for every other application.
PlainAnswers ==
    { <<Failure, Failure>>,
      << Ok(<< Job(1, <<"j">>, <<1>>) >>), Failure >>,
      << Ok(<< Job(1, <<"j">>, <<1>>) >>),
         Ok(<< Stage(1, <<"s">>, <<>>, 1, 1) >>) >>,
      << Ok(<< Job(2, <<"k">>, <<1, 2>>) >>), Ok(<<>>) >> }

Endpoints ==
    {AppsEndpoint} \cup {JobsEndpoint(App(k)) : k \in 1..MaxApps}
                   \cup {StagesEndpoint(App(k)) : k \in 1..MaxApps}

\* The server that lists n applications and answers ans[k] for the k-th;
\* an endpoint that computeState never requests answers Failure.
ServerOf(listOk, n, ans) ==
    [e \in Endpoints |->
        IF e = AppsEndpoint
        THEN IF listOk THEN Ok([k \in 1..n |-> App(k)]) ELSE Failure
        ELSE LET k == CHOOSE i \in 1..MaxApps :
                          e \in {JobsEndpoint(App(i)), StagesEndpoint(App(i))}
             IN  IF k > n THEN Failure
                 ELSE IF e[1] = "jobs" THEN ans[k][1] ELSE ans[k][2]]

RECURSIVE AnswerSeqs(_, _)
\* The answers for n applications: one of first, then PlainAnswers.
AnswerSeqs(n, first) ==
    IF n = 0 THEN {<<>>}
    ELSE IF n = 1 THEN {<<a>> : a \in first}
    ELSE {Append(s, a) : s \in AnswerSeqs(n - 1, first), a \in PlainAnswers}

ServersWith(first) ==
    { ServerOf(FALSE, 0, <<>>) }
    \cup UNION { { ServerOf(TRUE, n, ans) : ans \in AnswerSeqs(n, first) } :
                 n \in 0..MaxApps }

Servers == ServersWith(RichAnswers)
LoopServers == ServersWith(PlainAnswers)

Widths == 0..MaxWidth
Heights == 1..MaxHeight
LoopWidths == {MaxWidth \div 3, MaxWidth}
LoopHeights == {MaxHeight}

Archs == {"amd64", "arm64"}

\* No computeState has run yet.
NoServer == <<>>

\* An endpoint that computeState requests from this server fails.
AnyFailure(server) ==
    \/ ~server[AppsEndpoint].ok
    \/ \E i \in DOMAIN server[AppsEndpoint].body :
          LET app == server[AppsEndpoint].body[i]
          IN  \/ ~server[JobsEndpoint(app)].ok
              \/ ~server[StagesEndpoint(app)].ok

(***************************************************************************)
(* EventLoop: main.                                                        *)
(***************************************************************************)
\* After ui.Init() and defer ui.Close(), before the first computeState.
Init ==
    /\ pc = "start"
    /\ arch \in Archs
    /\ state = ZeroState
    /\ termWidth = 0
    /\ termHeight = 0
    /\ uiOpen = TRUE
    /\ screen = <<>>
    /\ lastEvent = "none"
    /\ fetched = 0
    /\ lastServer = NoServer
    /\ rendered = 0
    /\ drew = 0
    /\ drawArgs = [width |-> 0, height |-> 0, state |-> ZeroState]
    /\ lastAgg = ZeroState
    /\ lastDims = <<0, 0>>

\* log.Fatalf in readApiEndpoint: os.Exit(1), deferred calls do not run.
Fatal ==
    /\ pc' = "fatal"
    /\ rendered' = 0
    /\ drew' = 0
    /\ UNCHANGED <<state, screen, drawArgs, lastAgg, uiOpen>>

\* The end of a call render(w, h, st) with result r: ui.Render of the
\* drawables, or a panic that unwinds main, running the deferred ui.Close.
DrawResult(w, h, st, r) ==
    /\ rendered' = 1
    /\ drawArgs' = [width |-> w, height |-> h, state |-> st]
    /\ IF r.panicked
       THEN /\ pc' = "panicked"
            /\ uiOpen' = FALSE
            /\ drew' = 0
            /\ UNCHANGED screen
       ELSE /\ pc' = "running"
            /\ drew' = 1
            /\ screen' = r.drawables
            /\ UNCHANGED uiOpen

\* One call render(w, h, st).
Draw(w, h, st) == DrawResult(w, h, st, render(w, h, st, arch))

\* Lines 29 to 31, c being the outcome of computeState.
StartupWith(c, server, w, h) ==
    /\ lastEvent' = "startup"
    /\ fetched' = 1
    /\ lastServer' = server
    /\ IF c.fatal
       THEN /\ Fatal
            /\ UNCHANGED <<termWidth, termHeight, lastDims>>
       ELSE /\ state' = c.state
            /\ lastAgg' = c.state
            /\ termWidth' = w
            /\ termHeight' = h
            /\ lastDims' = <<w, h>>
            /\ Draw(w, h, c.state)

\* state := computeState(host); termWidth, termHeight :=
\* ui.TerminalDimensions(); render(termWidth, termHeight, state)
StartupOver(S, W, H) ==
    /\ pc = "start"
    /\ \E server \in S, w \in W, h \in H :
          StartupWith(computeState(server), server, w, h)
    /\ UNCHANGED arch

Startup == StartupOver(LoopServers, LoopWidths, LoopHeights)

StartupWide == StartupOver(Servers, Widths, Heights)

\* A refresh, c being the outcome of computeState.
RefreshWith(ev, c, server) ==
    /\ lastEvent' = ev
    /\ fetched' = 1
    /\ lastServer' = server
    /\ IF c.fatal
       THEN Fatal
       ELSE /\ state' = c.state
            /\ lastAgg' = c.state
            /\ Draw(termWidth, termHeight, c.state)

\* state = computeState(host); render(termWidth, termHeight, state)
Refresh(ev) ==
    /\ pc = "running"
    /\ \E server \in LoopServers :
          RefreshWith(ev, computeState(server), server)
    /\ UNCHANGED <<arch, termWidth, termHeight, lastDims>>

\* A refresh that draws before it stores the new snapshot.
RefreshWith_staleDraw(ev, c, server) ==
    /\ lastEvent' = ev
    /\ fetched' = 1
    /\ lastServer' = server
    /\ IF c.fatal
       THEN Fatal
       ELSE /\ state' = c.state
            /\ lastAgg' = c.state
            /\ Draw(termWidth, termHeight, state)

\* A variant of the timer tick that draws the snapshot it held before.
TimerTick_staleDraw ==
    /\ pc = "running"
    /\ \E server \in LoopServers :
          RefreshWith_staleDraw("tick", computeState(server), server)
    /\ UNCHANGED <<arch, termWidth, termHeight, lastDims>>

\* case <-ticker:
TimerTick == Refresh("tick")

\* case "r":
ManualRefresh == Refresh("r")

\* case "<Resize>":
Resize ==
    /\ pc = "running"
    /\ \E w \in LoopWidths, h \in LoopHeights :
          /\ termWidth' = w
          /\ termHeight' = h
          /\ lastDims' = <<w, h>>
          /\ Draw(w, h, state)
    /\ lastEvent' = "resize"
    /\ fetched' = 0
    /\ UNCHANGED <<arch, state, lastAgg, lastServer>>

\* A variant that leaves the loop without releasing the draw surface.
Quit_noClose ==
    /\ pc = "running"
    /\ pc' = "terminated"
    /\ \E id \in {"q", "<C-c>"} : lastEvent' = id
    /\ fetched' = 0
    /\ rendered' = 0
    /\ drew' = 0
    /\ UNCHANGED <<arch, state, termWidth, termHeight, uiOpen, screen,
                   drawArgs, lastAgg, lastDims, lastServer>>

\* case "q", "<C-c>": return, which runs the deferred ui.Close().
Quit ==
    /\ pc = "running"
    /\ pc' = "terminated"
    /\ uiOpen' = FALSE
    /\ \E id \in {"q", "<C-c>"} : lastEvent' = id
    /\ fetched' = 0
    /\ rendered' = 0
    /\ drew' = 0
    /\ UNCHANGED <<arch, state, termWidth, termHeight, screen, drawArgs,
                   lastAgg, lastDims, lastServer>>

\* Any other event ID: no case of the switch matches.
OtherInput ==
    /\ pc = "running"
    /\ lastEvent' = "other"
    /\ fetched' = 0
    /\ rendered' = 0
    /\ drew' = 0
    /\ UNCHANGED <<pc, arch, state, termWidth, termHeight, uiOpen, screen,
                   drawArgs, lastAgg, lastDims, lastServer>>

Next ==
    \/ Startup
    \/ TimerTick
    \/ ManualRefresh
    \/ Resize
    \/ Quit
    \/ OtherInput

\* main with its event loop.
Spec == Init /\ [][Next]_vars

NextWide == StartupWide

\* main up to its first draw, over every answer and every terminal size.
SpecWide == Init /\ [][NextWide]_vars

(***************************************************************************)
(* Vocabulary of the properties.                                           *)
(***************************************************************************)
\* image.Rectangle: Empty, Overlaps, In, Dy.
Empty(r) == r.MinX >= r.MaxX \/ r.MinY >= r.MaxY

Overlaps(r, q) ==
    /\ ~Empty(r) /\ ~Empty(q)
    /\ r.MinX < q.MaxX /\ q.MinX < r.MaxX
    /\ r.MinY < q.MaxY /\ q.MinY < r.MaxY

In(r, q) ==
    \/ Empty(r)
    \/ /\ q.MinX <= r.MinX /\ r.MaxX <= q.MaxX
       /\ q.MinY <= r.MinY /\ r.MaxY <= q.MaxY

Dy(r) == r.MaxY - r.MinY

ContentKinds == {"label", "gauge", "details"}

\* The snapshot the screen was drawn from, and the records behind a drawable.
Drawn == drawArgs.state
JobOf(d) == Drawn.Apps[d.app].Jobs[d.job]
StageOf(d) == JobOf(d).Stages[d.stage]

EndsWithEllipsis(text) ==
    /\ Len(text) >= 3
    /\ SubSeq(text, Len(text) - 2, Len(text)) = Ellipsis

RECURSIVE SumDy(_, _)
\* The sum of the heights of the drawables at the positions of set is.
SumDy(ds, is) ==
    IF is = {} THEN 0
    ELSE LET i == CHOOSE k \in is : TRUE
         IN  Dy(ds[i].rect) + SumDy(ds, is \ {i})

JobBlocksOf(a) ==
    {i \in DOMAIN screen : screen[i].kind = "jobBlock" /\ screen[i].app = a}

\* The bodies of the two per-application endpoints, as fetched.
FetchedJobs(app) == lastServer[JobsEndpoint(app)].body
FetchedStages(app) == lastServer[StagesEndpoint(app)].body
FetchedIndexes(app) ==
    {FetchedStages(app)[i].Index : i \in DOMAIN FetchedStages(app)}

\* The last computeState returned a snapshot.
Aggregated == fetched = 1 /\ pc # "fatal"

\* The stage references of the held snapshot that match no fetched stage,
\* as <<application, job, position>>.
Dangling ==
    {t \in UNION { UNION { { <<a, j, k>> :
                               k \in DOMAIN state.Apps[a].Jobs[j].Stages } :
                           j \in DOMAIN state.Apps[a].Jobs } :
                   a \in DOMAIN state.Apps } :
        state.Apps[t[1]].Jobs[t[2]].Job.Stages[t[3]]
            \notin FetchedIndexes(state.Apps[t[1]].App)}

(***************************************************************************)
(* C1.  Whenever render is called, the snapshot and the dimensions it is   *)
(* given are the result of the last completed computeState and of the last *)
(* completed assignment of the dimensions.                                 *)
(***************************************************************************)
C1_DrawSeesLatest ==
    rendered = 1 =>
        /\ drawArgs.state = lastAgg
        /\ <<drawArgs.width, drawArgs.height>> = lastDims

C1_Witness ==
    /\ lastEvent \in {"tick", "r"}
    /\ rendered = 1
    /\ drew = 1
    /\ Len(lastAgg.Apps) = MaxApps
    /\ lastDims = <<MaxWidth, MaxHeight>>

(***************************************************************************)
(* C2.  A resize step stores the payload's dimensions, keeps the snapshot, *)
(* calls no computeState and completes exactly one draw with the new       *)
(* dimensions and the unchanged snapshot.                                  *)
(***************************************************************************)
C2_ResizeDrawsOnce ==
    [][lastEvent' = "resize" =>
          /\ <<termWidth', termHeight'>> = lastDims'
          /\ state' = state
          /\ fetched' = 0
          /\ rendered' = 1
          /\ drew' = 1
          /\ drawArgs' = [width |-> termWidth', height |-> termHeight',
                          state |-> state]]_vars

(***************************************************************************)
(* C3.  A computeState that meets a failing endpoint returns nothing: the  *)
(* process exits, the held snapshot and the screen stay as they were, and  *)
(* nothing is rendered.                                                    *)
(***************************************************************************)
C3_FailureAborts ==
    [][(fetched' = 1 /\ AnyFailure(lastServer')) =>
          /\ pc' = "fatal"
          /\ state' = state
          /\ screen' = screen
          /\ rendered' = 0
          /\ drew' = 0]_vars

\* The application list and one application were fetched, another failed.
C3_Witness ==
    /\ fetched = 1
    /\ pc = "fatal"
    /\ lastServer[AppsEndpoint].ok
    /\ \E i, j \in DOMAIN lastServer[AppsEndpoint].body :
          LET good == lastServer[AppsEndpoint].body[i]
              bad == lastServer[AppsEndpoint].body[j]
          IN  /\ lastServer[JobsEndpoint(good)].ok
              /\ lastServer[StagesEndpoint(good)].ok
              /\ ~lastServer[StagesEndpoint(bad)].ok

(***************************************************************************)
(* C4.  A quit event is handled in the running loop only; it ends main,    *)
(* closes the draw surface and fetches, lays out and draws nothing; no     *)
(* step is taken once main has returned.                                   *)
(***************************************************************************)
C4_QuitTerminates ==
    [][/\ pc # "terminated"
       /\ lastEvent' \in {"q", "<C-c>"} =>
             /\ pc = "running"
             /\ pc' = "terminated"
             /\ ~uiOpen'
             /\ fetched' = 0
             /\ rendered' = 0
             /\ drew' = 0
             /\ state' = state
             /\ screen' = screen]_vars

C4_Witness ==
    /\ pc = "terminated"
    /\ lastEvent = "<C-c>"
    /\ ~uiOpen
    /\ screen # <<>>

(***************************************************************************)
(* C5.  Every gauge percent is an integer in 0..100, and it is 0 for a     *)
(* stage with Tasks = 0.                                                   *)
(***************************************************************************)
C5_PercentInRange ==
    \A i \in DOMAIN screen :
        screen[i].kind = "gauge" =>
            /\ screen[i].percent.class = "int"
            /\ screen[i].percent.val \in 0..100
            /\ StageOf(screen[i]).Tasks = 0 => screen[i].percent.val = 0

(***************************************************************************)
(* C6.  For every width, render of a snapshot completes, and every label   *)
(* it draws is at most labelWidth long, is cut only when the full text is  *)
(* longer than labelWidth, and ends with "..." when it is cut.             *)
(***************************************************************************)
C6_LabelFits ==
    rendered = 1 =>
        /\ pc # "panicked"
        /\ \A i \in DOMAIN screen :
              screen[i].kind = "label" =>
                  LET labelWidth == drawArgs.width \div 2
                      full == LabelText(StageOf(screen[i]))
                  IN  /\ Len(screen[i].text) <= labelWidth
                      /\ screen[i].text # full =>
                            /\ Len(full) > labelWidth
                            /\ EndsWithEllipsis(screen[i].text)
                      /\ Len(full) <= labelWidth => screen[i].text = full

(***************************************************************************)
(* C7.  On a drawn screen, within one application: the label, gauge and    *)
(* details regions are pairwise disjoint, the job blocks are pairwise      *)
(* disjoint, and every content region lies inside its own job block.       *)
(***************************************************************************)
C7_NoOverlap ==
    \A i, j \in DOMAIN screen :
        (i # j /\ screen[i].app = screen[j].app /\ screen[i].app # 0) =>
            /\ (screen[i].kind \in ContentKinds
                /\ screen[j].kind \in ContentKinds)
                  => ~Overlaps(screen[i].rect, screen[j].rect)
            /\ (screen[i].kind = "jobBlock" /\ screen[j].kind = "jobBlock")
                  => ~Overlaps(screen[i].rect, screen[j].rect)
            /\ (screen[i].kind \in ContentKinds
                /\ screen[j].kind = "jobBlock"
                /\ screen[i].job = screen[j].job)
                  => In(screen[i].rect, screen[j].rect)

\* A drawn application with two jobs, one of them with two stages, whose
\* label and gauge are both non-empty.
C7_Witness ==
    /\ drew = 1
    /\ \E i, j, k \in DOMAIN screen :
          /\ screen[i].kind = "label" /\ screen[i].stage = 2
          /\ ~Empty(screen[i].rect)
          /\ screen[j].kind = "gauge" /\ screen[j].stage = 2
          /\ screen[j].app = screen[i].app /\ screen[j].job = screen[i].job
          /\ ~Empty(screen[j].rect)
          /\ screen[k].kind = "jobBlock" /\ screen[k].app = screen[i].app
          /\ screen[k].job # screen[i].job

C9_PlaceholderFlagged ==
    (fetched = 1 /\ ~AnyFailure(lastServer)) =>
        /\ pc # "fatal"
        /\ \A t, u \in Dangling :
              LET st == state.Apps[t[1]].Jobs[t[2]].Stages[t[3]]
                  su == state.Apps[u[1]].Jobs[u[2]].Stages[u[3]]
              IN  /\ st = su
                  /\ st.Name # <<>>
                  /\ st.Status # <<>>

(***************************************************************************)
(* C9, amended.  Every stage reference without a matching stage resolves,  *)
(* without a failure, to the zero Stage: index 0, empty name, status and   *)
(* details, all counts 0.                                                  *)
(***************************************************************************)
C9_PlaceholderIsZeroStage ==
    (fetched = 1 /\ ~AnyFailure(lastServer)) =>
        /\ pc # "fatal"
        /\ Len(state.Apps) = Len(lastServer[AppsEndpoint].body)
        /\ \A t \in Dangling :
              state.Apps[t[1]].Jobs[t[2]].Stages[t[3]] = ZeroStage

\* Reference 7 is dangling although the application has fetched stages.
C9_Witness ==
    /\ Aggregated
    /\ \E t \in Dangling :
          /\ state.Apps[t[1]].Jobs[t[2]].Job.Stages[t[3]] = 7
          /\ FetchedIndexes(state.Apps[t[1]].App) # {}
          /\ state.Apps[t[1]].Jobs[t[2]].Stages[t[3]].Name = <<>>

(***************************************************************************)
(* C10.  As stated: a job block is 1 + 3 * n + 1 rows high for a job with  *)
(* n stages, the label, gauge and details of a stage on three stacked      *)
(* rows, and an application block is 1 + the heights of its job blocks + 1 *)
(* rows high.                                                              *)
(***************************************************************************)
C10_ThreeRowsPerStage ==
    \A i \in DOMAIN screen :
        /\ screen[i].kind = "jobBlock" =>
              Dy(screen[i].rect) = 1 + 3 * Len(JobOf(screen[i]).Stages) + 1
        /\ screen[i].kind = "root" =>
              Dy(screen[i].rect)
                  = 1 + SumDy(screen, JobBlocksOf(screen[i].app)) + 1
        /\ screen[i].kind = "label" =>
              /\ screen[i + 1].rect.MinY = screen[i].rect.MinY + 1
              /\ screen[i + 2].rect.MinY = screen[i].rect.MinY + 2

(***************************************************************************)
(* C10, amended.  A job block is 1 + 2 * n + 1 rows high for a job with n  *)
(* stages: the label and the gauge of a stage share one row and its        *)
(* details are on the next row, the k-th stage starting 1 + 2 * (k - 1)    *)
(* rows below the top of the block; an application block is 1 + the        *)
(* heights of its job blocks + 1 rows high.                                *)
(***************************************************************************)
C10_TwoRowsPerStage ==
    \A i \in DOMAIN screen :
        /\ screen[i].kind = "jobBlock" =>
              Dy(screen[i].rect) = 1 + 2 * Len(JobOf(screen[i]).Stages) + 1
        /\ screen[i].kind = "root" =>
              Dy(screen[i].rect)
                  = 1 + SumDy(screen, JobBlocksOf(screen[i].app)) + 1
        /\ screen[i].kind = "label" =>
              /\ screen[i + 1].kind = "gauge"
              /\ screen[i + 2].kind = "details"
              /\ Dy(screen[i].rect) = 1
              /\ Dy(screen[i + 1].rect) = 1
              /\ Dy(screen[i + 2].rect) = 1
              /\ screen[i + 1].rect.MinY = screen[i].rect.MinY
              /\ screen[i + 2].rect.MinY = screen[i].rect.MinY + 1
              /\ \E b \in JobBlocksOf(screen[i].app) :
                    /\ screen[b].job = screen[i].job
                    /\ screen[i].rect.MinY
                           = screen[b].rect.MinY + 1
                               + 2 * (screen[i].stage - 1)

\* A drawn application with two job blocks, one of them with two stages.
C10_Witness ==
    /\ drew = 1
    /\ \E i, j \in DOMAIN screen :
          /\ screen[i].kind = "jobBlock"
          /\ Len(JobOf(screen[i]).Stages) = 2
          /\ screen[j].kind = "jobBlock"
          /\ screen[j].app = screen[i].app
          /\ screen[j].job # screen[i].job

====
